---- MODULE Spec2Model ----
(***************************************************************************)
(* Model of the login / JWT / role-check backend:                          *)
(*   controllers/authController.js  login                                  *)
(*   middlewares/verifyToken.js     verifyToken                            *)
(*   middlewares/checkRole.js       checkRole                              *)
(*   utils/generateToken.js         generateToken                          *)
(*   config/db.js                   connectDB, getDB                       *)
(*   routes/dataRoutes.js           /data/all, /data/admin, /data/advisor  *)
(*   seed script                    seed                                   *)
(* Every await in the source is a point where other requests may run, so   *)
(* every handler is cut into one action per await.                         *)
(***************************************************************************)
EXTENDS Integers, Sequences, FiniteSets, TLC

VARIABLES db, tableReady, users, seedDone, now, reqs, issued, started,
          gateClaims, gateRoles, gateOut

vars == <<db, tableReady, users, seedDone, now, reqs, issued, started,
          gateClaims, gateRoles, gateOut>>

mainVars == <<db, tableReady, users, seedDone, now, reqs, issued, started>>
gateVars == <<gateClaims, gateRoles, gateOut>>

(***************************************************************************)
(* Bounds of the model.                                                    *)
(***************************************************************************)
NumReq == 2          \* requests held at a time, in flight or answered
MaxStarted == 3      \* requests started in one behaviour
MaxTime == 60        \* last clock value, in seconds
ClockStep == 30      \* seconds between two observations of the clock

(***************************************************************************)
(* Program constants.                                                      *)
(***************************************************************************)
TokenLifetime == 60  \* setExpirationTime('1m'), in seconds

(***************************************************************************)
(* JavaScript values that reach the handlers from a JSON body.             *)
(***************************************************************************)
Undefined == [type |-> "undefined", val |-> ""]
Str(s) == [type |-> "string", val |-> s]
Num(s) == [type |-> "number", val |-> s]

\* a check for undefined only: the empty string passes
FalsyUndefinedOnly(v) == v.type = "undefined"

\* !v of JavaScript
Falsy(v) ==
    \/ v.type = "undefined"
    \/ v.type = "string" /\ v.val = ""
    \/ v.type = "number" /\ v.val = "0"

(***************************************************************************)
(* bcrypt: the hash carries its salt; compare re-hashes the plaintext with *)
(* the salt of the stored hash and compares the results.                   *)
(***************************************************************************)
\* the salts bcrypt.hash(password, 10) may draw
Salts == {"saltA"}

BcryptHash(plain, salt) == [salt |-> salt, digest |-> <<salt, plain>>]

\* outcome of bcrypt.compare(password, hash): it rejects when the data
\* argument is not a string, otherwise resolves to a boolean
BcryptCompare(password, hash) ==
    IF password.type # "string"
    THEN [threw |-> TRUE, match |-> FALSE]
    ELSE [threw |-> FALSE, match |-> (BcryptHash(password.val, hash.salt) = hash)]

(***************************************************************************)
(* The credential store: rows of the users table.                          *)
(***************************************************************************)
SeedUsers ==
    << [username |-> "user1", password |-> "password1", role |-> "user"],
       [username |-> "advisor1", password |-> "password2", role |-> "advisor"],
       [username |-> "admin1", password |-> "password3", role |-> "admin"] >>

NoRow == [none |-> TRUE]

\* db.get('SELECT * FROM users WHERE username = ?'): the row or undefined
FindByUsername(rows, username) ==
    IF \E i \in 1..Len(rows) : rows[i].username = username
    THEN rows[CHOOSE i \in 1..Len(rows) : rows[i].username = username]
    ELSE NoRow

\* a lookup that creates the row it does not find
StoreAfterGetUpsert(rows, username) ==
    IF FindByUsername(rows, username) = NoRow
    THEN Append(rows, [id |-> Len(rows) + 1, username |-> username,
                       passwordHashed |-> BcryptHash("", "saltA"),
                       role |-> "user"])
    ELSE rows

\* the table after db.get('SELECT ...'): a SELECT writes nothing
StoreAfterGet(rows, username) == rows

\* what another process does to the rows of the database file: the role of
\* a record is changed, or the record is removed
ProvisionKinds == {"role", "remove"}
ProvisionedUser == "admin1"

RowsWithout(rows, username) ==
    SelectSeq(rows, LAMBDA r : r.username # username)

Provision(rows, kind) ==
    IF kind = "role"
    THEN [i \in 1..Len(rows) |->
             IF rows[i].username = ProvisionedUser
             THEN [rows[i] EXCEPT !.role = "user"] ELSE rows[i]]
    ELSE RowsWithout(rows, ProvisionedUser)

(***************************************************************************)
(* Compact JWS tokens: <<header, payload, signature>>.  The HMAC is ideal: *)
(* a tag determines the algorithm, the key and the signing input.          *)
(***************************************************************************)
Secret == "JWT_SECRET"
AttackerKey == "attacker-key"

HmacAlgs == {"HS256", "HS384", "HS512"}

HmacSign(alg, key, header, payload) ==
    [alg |-> alg, key |-> key, header |-> header, payload |-> payload]

\* new SignJWT({id, username, role}).setProtectedHeader({alg:'HS256'})
\*     .setExpirationTime('1m').sign(key), signed at time t
SignJWT(claims, key, t) ==
    LET header == [alg |-> "HS256"]
        payload == [k \in DOMAIN claims \cup {"exp"} |->
                       IF k = "exp" THEN t + TokenLifetime ELSE claims[k]]
    IN  <<header, payload, HmacSign("HS256", key, header, payload)>>

\* a payload that takes the role from somewhere else than the row
TokenClaimsDefaultRole(user) ==
    [id |-> user.id, username |-> user.username, role |-> "user"]

\* new SignJWT(user): the whole row is signed
TokenClaimsWholeRow(user) == user

\* the payload generateToken signs for a users row
TokenClaims(user) ==
    [id |-> user.id, username |-> user.username, role |-> user.role]

\* generateToken(user) at time t
GenerateToken(user, t) == SignJWT(TokenClaims(user), Secret, t)

NoPayload == [none |-> TRUE]

\* jwtVerify that never looks at the exp claim
JwtVerifyNoExp(token, key, t) ==
    IF Len(token) # 3
    THEN [ok |-> FALSE, err |-> "JWSInvalid", payload |-> NoPayload]
    ELSE IF token[1].alg \notin HmacAlgs
    THEN [ok |-> FALSE, err |-> "TypeError", payload |-> NoPayload]
    ELSE IF token[3] # HmacSign(token[1].alg, key, token[1], token[2])
    THEN [ok |-> FALSE, err |-> "JWSSignatureVerificationFailed",
          payload |-> NoPayload]
    ELSE [ok |-> TRUE, err |-> "", payload |-> token[2]]

\* decodeJwt in place of jwtVerify: the signature is not checked
JwtDecodeOnly(token, key, t) ==
    IF Len(token) # 3
    THEN [ok |-> FALSE, err |-> "JWSInvalid", payload |-> NoPayload]
    ELSE IF token[2].exp <= t
    THEN [ok |-> FALSE, err |-> "JWTExpired", payload |-> NoPayload]
    ELSE [ok |-> TRUE, err |-> "", payload |-> token[2]]

\* jwtVerify(token, secret) at time t; token is the list of the '.'-separated
\* parts of the presented string, or <<>> when it is not made of JWS parts
JwtVerify(token, key, t) ==
    IF Len(token) # 3
    THEN [ok |-> FALSE, err |-> "JWSInvalid", payload |-> NoPayload]
    ELSE IF token[1].alg \notin HmacAlgs
    THEN [ok |-> FALSE, err |-> "TypeError", payload |-> NoPayload]
    ELSE IF token[3] # HmacSign(token[1].alg, key, token[1], token[2])
    THEN [ok |-> FALSE, err |-> "JWSSignatureVerificationFailed",
          payload |-> NoPayload]
    ELSE IF token[2].exp <= t
    THEN [ok |-> FALSE, err |-> "JWTExpired", payload |-> NoPayload]
    ELSE [ok |-> TRUE, err |-> "", payload |-> token[2]]

(***************************************************************************)
(* The Authorization header: a string of characters, where a word and a    *)
(* token count as one character each and Sp is the space.                  *)
(***************************************************************************)
Sp == [ch |-> "sp"]
Word(w) == [ch |-> "word", word |-> w]
Jws(parts) == [ch |-> "jws", parts |-> parts]

NoHeader == [present |-> FALSE, chars |-> <<>>]
Header(chars) == [present |-> TRUE, chars |-> chars]

RECURSIVE SplitFrom(_, _, _)
\* authHeader.split(' '): cur is the segment being read
SplitFrom(chars, i, cur) ==
    IF i > Len(chars) THEN <<cur>>
    ELSE IF chars[i] = Sp THEN <<cur>> \o SplitFrom(chars, i + 1, <<>>)
    ELSE SplitFrom(chars, i + 1, Append(cur, chars[i]))

Split(chars) == SplitFrom(chars, 1, <<>>)

\* authHeader.split(' ')[1]; the empty segment stands for undefined too
TokenSegment(chars) ==
    IF Len(Split(chars)) >= 2 THEN Split(chars)[2] ELSE <<>>

\* the JWS parts of a segment: jose splits the string at '.'
JwsParts(segment) ==
    IF Len(segment) = 1 /\ segment[1].ch = "jws" THEN segment[1].parts ELSE <<>>

(***************************************************************************)
(* Responses: res.status(code).json(body); res.json(body) alone is a 200.  *)
(***************************************************************************)
Response(status, body) == [status |-> status, body |-> body]
\* a message is the list of the pieces of the template string it is built from
Message(status, text) == Response(status, [message |-> <<text>>])

MissingFieldsResponse == Message(400, "Username and password required")
UnknownUserResponse == Message(401, "Invalid credentials")
\* a login that tells a wrong password from an unknown username
WrongPasswordResponseLeaky == Message(401, "Wrong password")
WrongPasswordResponse == Message(401, "Invalid credentials")
ServerErrorResponse == Message(500, "Server error")

\* res.json({...user, token}): the whole row goes out
LoginSuccessResponseWithHash(user, token) ==
    Response(200, [id |-> user.id, username |-> user.username,
                   role |-> user.role, token |-> token,
                   passwordHashed |-> user.passwordHashed])

LoginSuccessResponse(user, token) ==
    Response(200, [id |-> user.id, username |-> user.username,
                   role |-> user.role, token |-> token])

NoTokenResponse == Message(401, "No token provided")
\* the malformed header answered like a bad token
MalformedTokenResponseAs403 == Message(403, "Invalid or expired token")
MalformedTokenResponse == Message(401, "Malformed token")

\* a catch block that reports expiry apart from the other failures
InvalidTokenResponseByKind(err) ==
    IF err = "JWTExpired" THEN Message(403, "Token expired")
    ELSE Message(403, "Invalid token")

\* the catch block of verifyToken answers every error of jwtVerify alike
InvalidTokenResponse(err) == Message(403, "Invalid or expired token")

AccessDeniedResponse == Message(403, "Access denied: insufficient permissions")

(***************************************************************************)
(* One request: the req/res pair of Express plus the handler's locals.     *)
(***************************************************************************)
NoBody == [present |-> FALSE]
Body(username, password) ==
    [present |-> TRUE, username |-> username, password |-> password]

NoClaims == [none |-> TRUE]

IdleReq ==
    [pc |-> "idle", route |-> "none", body |-> NoBody, header |-> NoHeader,
     user |-> NoRow, token |-> <<>>, reqUser |-> NoClaims,
     responses |-> <<>>, nexts |-> <<>>, handlerCalls |-> 0,
     logged |-> <<>>, steps |-> <<>>, verifiedAt |-> -1,
     storeAtVerify |-> <<>>]

\* res.json(...) on the request, the handler returning afterwards
Send(req, response) ==
    [req EXCEPT !.responses = Append(@, response), !.pc = "done"]

\* a step of the handler has returned normally
Step(req, name) == [req EXCEPT !.steps = Append(@, name)]

\* console.error(...) followed by a response
LogAndSend(req, err, response) ==
    Send([req EXCEPT !.logged = Append(@, err)], response)

(***************************************************************************)
(* routes/dataRoutes.js                                                    *)
(***************************************************************************)
ProtectedRoutes == {"all", "admin", "advisor"}

\* the roles array given to checkRole at registration; /all has no checkRole
HasCheckRole(route) == route \in {"admin", "advisor"}
RequiredRoles(route) ==
    IF route = "admin" THEN {"admin"}
    ELSE IF route = "advisor" THEN {"advisor"}
    ELSE {}

\* the final handler of a protected route
Handler(req) ==
    LET body == IF req.route = "all"
                THEN [message |-> <<"Hello ", req.reqUser.username,
                                    ", your role is ", req.reqUser.role>>]
                ELSE IF req.route = "admin"
                THEN [message |-> <<"Admin content here">>]
                ELSE [message |-> <<"Advisor content here">>]
    IN  Send([req EXCEPT !.handlerCalls = @ + 1], Response(200, body))

\* a role hierarchy in which admin satisfies every check
RoleAllowedHierarchy(roles, reqUser) ==
    ~ (reqUser = NoClaims \/ (reqUser.role \notin roles /\ reqUser.role # "admin"))

\* the decision of the middleware returned by checkRole(roles)
RoleAllowed(roles, reqUser) ==
    ~ (reqUser = NoClaims \/ reqUser.role \notin roles)

\* checkRole without the return in front of the 403: next() runs as well
CheckRoleNoReturn(roles, req) ==
    LET r1 == IF ~ RoleAllowed(roles, req.reqUser)
              THEN Send(req, AccessDeniedResponse) ELSE req
    IN  Handler([r1 EXCEPT !.nexts = Append(@, "checkRole")])

\* the middleware returned by checkRole(roles), next being the handler
CheckRole(roles, req) ==
    IF ~ RoleAllowed(roles, req.reqUser)
    THEN Send(req, AccessDeniedResponse)
    ELSE Handler([req EXCEPT !.nexts = Append(@, "checkRole")])

\* next() of verifyToken: the rest of the route's middleware chain
AfterVerifyToken(req) ==
    LET r2 == [req EXCEPT !.nexts = Append(@, "verifyToken")]
    IN  IF HasCheckRole(req.route)
        THEN CheckRole(RequiredRoles(req.route), r2)
        ELSE Handler(r2)

(***************************************************************************)
(* Inputs of the requests.                                                 *)
(***************************************************************************)
LoginUsernames ==
    {Undefined, Str(""), Str("admin1"), Str("ghost")}
LoginPasswords ==
    {Undefined, Str("password3"), Str("wrong"), Num("123")}

\* the bodies tried: no body, and every username and every password next to
\* a password, respectively a username, of the store
Bodies ==
    {NoBody}
    \cup {Body(u, Str("password3")) : u \in LoginUsernames}
    \cup {Body(Str("admin1"), p) : p \in LoginPasswords}

\* what a client can make of a token it holds without knowing the secret
TamperKinds == {"role", "exp", "sig", "none-alg", "truncate"}

Tamper(token, kind) ==
    LET h == token[1]
        p == token[2]
        s == token[3]
    IN  CASE kind = "role" ->
                <<h, [p EXCEPT !.role = IF @ = "admin" THEN "advisor" ELSE "admin"], s>>
          [] kind = "exp" -> <<h, [p EXCEPT !.exp = @ + TokenLifetime], s>>
          [] kind = "sig" -> <<h, p, [s EXCEPT !.key = AttackerKey]>>
          [] kind = "none-alg" -> <<[h EXCEPT !.alg = "none"], p, s>>
          [] kind = "truncate" -> <<h, p>>

\* a token the client signs itself, with a key of its own
ForgedToken ==
    SignJWT([id |-> 3, username |-> "admin1", role |-> "admin"],
            AttackerKey, MaxTime)

\* the Authorization headers that need no token from a login
TokenlessHeaders ==
    {NoHeader, Header(<<>>), Header(<<Word("Bearer")>>),
     Header(<<Word("Bearer"), Sp, Word("abc")>>),
     Header(<<Word("Bearer"), Sp, Jws(ForgedToken)>>),
     Header(<<Word("Bearer"), Sp, Sp, Jws(ForgedToken)>>)}

\* the Authorization headers made of a token the client holds
Bearer(token) == Header(<<Word("Bearer"), Sp, Jws(token)>>)
OtherScheme(token) == Header(<<Word("Basic"), Sp, Jws(token)>>)
NoScheme(token) == Header(<<Jws(token)>>)

IssuedTokens == {i.token : i \in issued}

(***************************************************************************)
(* Initial state: the server process has just called connectDB().          *)
(***************************************************************************)
Init ==
    /\ db = "opening"
    /\ tableReady = FALSE
    /\ users = <<>>
    /\ seedDone = FALSE
    /\ now = 0
    /\ reqs = {}
    /\ issued = {}
    /\ started = 0
    /\ gateClaims = NoClaims
    /\ gateRoles = {}
    /\ gateOut = IdleReq

(***************************************************************************)
(* config/db.js                                                            *)
(***************************************************************************)
\* db = await open(...): the handle is assigned
ConnectOpen ==
    /\ db = "opening"
    /\ db' = "creating"
    /\ UNCHANGED <<tableReady, users, seedDone, now, reqs, issued, started>>
    /\ UNCHANGED gateVars

\* await db.exec('CREATE TABLE IF NOT EXISTS users ...')
ConnectExec ==
    /\ db = "creating"
    /\ db' = "ready"
    /\ tableReady' = TRUE
    /\ UNCHANGED <<users, seedDone, now, reqs, issued, started>>
    /\ UNCHANGED gateVars

\* getDB() throws while db is not assigned
GetDBThrows == db = "opening"

(***************************************************************************)
(* The seed script, run as a process of its own on the same database file: *)
(* connectDB(), then one insert per user, a name already taken being       *)
(* skipped, then process.exit(0).                                          *)
(***************************************************************************)
RECURSIVE SeedRows(_, _, _)
\* the table after the loop has run from the i-th user on
SeedRows(rows, i, salts) ==
    IF i > Len(SeedUsers) THEN rows
    ELSE LET u == SeedUsers[i]
             row == [id |-> Len(rows) + 1, username |-> u.username,
                     passwordHashed |-> BcryptHash(u.password, salts[i]),
                     role |-> u.role]
         IN  SeedRows(IF FindByUsername(rows, u.username) = NoRow
                      THEN Append(rows, row) ELSE rows,
                      i + 1, salts)

Seed ==
    /\ ~ seedDone
    /\ seedDone' = TRUE
    /\ tableReady' = TRUE
    /\ \E salts \in [1..Len(SeedUsers) -> Salts] :
          users' = SeedRows(users, 1, salts)
    /\ UNCHANGED <<db, now, reqs, issued, started>>
    /\ UNCHANGED gateVars

(***************************************************************************)
(* The clock read by jose (new Date()).                                    *)
(***************************************************************************)
Tick ==
    /\ now + ClockStep <= MaxTime
    /\ now' = now + ClockStep
    /\ UNCHANGED <<db, tableReady, users, seedDone, reqs, issued, started>>
    /\ UNCHANGED gateVars

(***************************************************************************)
(* The requests held: those in flight and those answered last.  A request  *)
(* that arrives when NumReq are held takes the place of an answered one    *)
(* (which one is of no consequence: an answered request does nothing).     *)
(***************************************************************************)
Over(q) == q.pc \in {"done", "rejected"}

CanStart ==
    /\ started < MaxStarted
    /\ Cardinality(reqs) < NumReq \/ \E q \in reqs : Over(q)

Arrive(new) ==
    /\ IF Cardinality(reqs) < NumReq
       THEN reqs' = reqs \cup {new}
       ELSE reqs' = (reqs \ {CHOOSE old \in reqs : Over(old)}) \cup {new}
    /\ started' = started + 1

\* the request q goes on to become q2
Continue(q, q2) == reqs' = (reqs \ {q}) \cup {q2}

(***************************************************************************)
(* controllers/authController.js: login                                    *)
(***************************************************************************)
\* from the entry of login to its first await
LoginEnter(req) ==
    IF ~ req.body.present
    THEN \* destructuring req.body throws before the try block is entered
         [req EXCEPT !.pc = "rejected"]
    ELSE IF Falsy(req.body.username) \/ Falsy(req.body.password)
    THEN Send(req, MissingFieldsResponse)
    ELSE IF GetDBThrows
    THEN LogAndSend(Step(req, "validated"), "Error", ServerErrorResponse)
    ELSE [Step(req, "validated") EXCEPT !.pc = "lookup"]

LoginStart ==
    /\ CanStart
    /\ \E body \in Bodies :
          Arrive(LoginEnter([IdleReq EXCEPT !.route = "login", !.body = body]))
    /\ UNCHANGED <<db, tableReady, users, seedDone, now, issued>>
    /\ UNCHANGED gateVars

\* a catch block that logs the error and sends nothing
LoginAfterLookupSilent(req) ==
    IF ~ tableReady
    THEN [req EXCEPT !.logged = Append(@, "SQLITE_ERROR"), !.pc = "done"]
    ELSE LET user == FindByUsername(users, req.body.username.val)
         IN  IF user = NoRow
             THEN Send(Step(req, "lookedUp"), UnknownUserResponse)
             ELSE [Step(req, "lookedUp") EXCEPT !.user = user, !.pc = "compare"]

\* await db.get(...) settles; on a row, bcrypt.compare is called
LoginAfterLookup(req) ==
    IF ~ tableReady
    THEN LogAndSend(req, "SQLITE_ERROR", ServerErrorResponse)
    ELSE LET user == FindByUsername(users, req.body.username.val)
         IN  IF user = NoRow
             THEN Send(Step(req, "lookedUp"), UnknownUserResponse)
             ELSE [Step(req, "lookedUp") EXCEPT !.user = user, !.pc = "compare"]

LoginLookup ==
    /\ \E q \in reqs :
          /\ q.pc = "lookup"
          /\ Continue(q, LoginAfterLookup(q))
          /\ users' = IF tableReady
                      THEN StoreAfterGet(users, q.body.username.val)
                      ELSE users
    /\ UNCHANGED <<db, tableReady, seedDone, now, issued, started>>
    /\ UNCHANGED gateVars

\* a login that does not look at the result of the comparison
LoginAfterCompareNoCheck(req) ==
    LET cmp == BcryptCompare(req.body.password, req.user.passwordHashed)
    IN  IF cmp.threw
        THEN LogAndSend(req, "Error", ServerErrorResponse)
        ELSE [Step(req, "compared") EXCEPT
                 !.token = GenerateToken(req.user, now), !.pc = "sign"]

\* await bcrypt.compare(...) settles; on a match generateToken builds the
\* token (its expiration is computed here) and starts signing it
LoginAfterCompare(req) ==
    LET cmp == BcryptCompare(req.body.password, req.user.passwordHashed)
    IN  IF cmp.threw
        THEN LogAndSend(req, "Error", ServerErrorResponse)
        ELSE IF ~ cmp.match
        THEN Send(Step(req, "compared"), WrongPasswordResponse)
        ELSE [Step(req, "compared") EXCEPT
                 !.token = GenerateToken(req.user, now), !.pc = "sign"]

LoginCompare ==
    /\ \E q \in reqs : q.pc = "compare" /\ Continue(q, LoginAfterCompare(q))
    /\ UNCHANGED <<db, tableReady, users, seedDone, now, issued, started>>
    /\ UNCHANGED gateVars

\* await generateToken(user) settles and the success response is sent
LoginAfterSign(req) ==
    Send(Step(req, "issued"), LoginSuccessResponse(req.user, req.token))

LoginRespond ==
    /\ \E q \in reqs :
          /\ q.pc = "sign"
          /\ Continue(q, LoginAfterSign(q))
          /\ issued' = issued \cup {[token |-> q.token, user |-> q.user]}
    /\ UNCHANGED <<db, tableReady, users, seedDone, now, started>>
    /\ UNCHANGED gateVars

(***************************************************************************)
(* middlewares/verifyToken.js: verifyToken                                 *)
(***************************************************************************)
\* from the entry of verifyToken to the call of jwtVerify
VerifyTokenEnter(req) ==
    IF ~ req.header.present \/ req.header.chars = <<>>
    THEN Send(req, NoTokenResponse)
    ELSE LET token == TokenSegment(req.header.chars)
         IN  IF token = <<>>
             THEN Send(req, MalformedTokenResponse)
             ELSE [req EXCEPT !.token = token, !.pc = "verify"]

\* a request for a protected route arrives
Protected(route, header) ==
    Arrive(VerifyTokenEnter([IdleReq EXCEPT !.route = route, !.header = header]))

\* the protected requests tried: a held token, as it is, on every route, and
\* every other header on the route with the longest middleware chain
GuardStart ==
    /\ CanStart
    /\ \/ \E h \in TokenlessHeaders : Protected("admin", h)
       \/ \E i \in issued, route \in ProtectedRoutes :
             Protected(route, Bearer(i.token))
       \/ \E i \in issued, k \in TamperKinds :
             Protected("admin", Bearer(Tamper(i.token, k)))
       \/ \E i \in issued : Protected("admin", OtherScheme(i.token))
       \/ \E i \in issued : Protected("admin", NoScheme(i.token))
    /\ UNCHANGED <<db, tableReady, users, seedDone, now, issued>>
    /\ UNCHANGED gateVars

\* a verifier that keeps the claims it verified in one place for all requests
VerifyTokenAfterVerifyShared(req, t) ==
    LET res == JwtVerify(JwsParts(req.token), Secret, t)
        r1 == [req EXCEPT !.verifiedAt = t,
                          !.storeAtVerify = IF res.ok THEN users ELSE <<>>]
        others == {o \in reqs : o.reqUser # NoClaims}
    IN  IF others # {}
        THEN AfterVerifyToken(
                 [r1 EXCEPT !.reqUser = (CHOOSE o \in others : TRUE).reqUser])
        ELSE IF res.ok
        THEN AfterVerifyToken(
                 [r1 EXCEPT !.reqUser = [id |-> res.payload.id,
                                         username |-> res.payload.username,
                                         role |-> res.payload.role]])
        ELSE LogAndSend(r1, res.err, InvalidTokenResponse(res.err))

\* a verifier that looks the subject up again: no record, no access, and the
\* role is the one the store holds now
VerifyTokenAfterVerifyFromStore(req, t) ==
    LET res == JwtVerify(JwsParts(req.token), Secret, t)
        r1 == [req EXCEPT !.verifiedAt = t,
                          !.storeAtVerify = IF res.ok THEN users ELSE <<>>]
        row == IF res.ok THEN FindByUsername(users, res.payload.username)
               ELSE NoRow
    IN  IF res.ok /\ row # NoRow
        THEN AfterVerifyToken(
                 [r1 EXCEPT !.reqUser = [id |-> row.id,
                                         username |-> row.username,
                                         role |-> row.role]])
        ELSE LogAndSend(r1, IF res.ok THEN "Revoked" ELSE res.err,
                        InvalidTokenResponse(res.err))

\* await jwtVerify(token, secret) settles at time t
VerifyTokenAfterVerify(req, t) ==
    LET res == JwtVerify(JwsParts(req.token), Secret, t)
        \* storeAtVerify: the table as it was when an accepted token settled
        r1 == [req EXCEPT !.verifiedAt = t,
                          !.storeAtVerify = IF res.ok THEN users ELSE <<>>]
    IN  IF res.ok
        THEN AfterVerifyToken(
                 [r1 EXCEPT !.reqUser = [id |-> res.payload.id,
                                         username |-> res.payload.username,
                                         role |-> res.payload.role]])
        ELSE LogAndSend(r1, res.err, InvalidTokenResponse(res.err))

GuardVerify ==
    /\ \E q \in reqs : q.pc = "verify" /\ Continue(q, VerifyTokenAfterVerify(q, now))
    /\ UNCHANGED <<db, tableReady, users, seedDone, now, issued, started>>
    /\ UNCHANGED gateVars

Next ==
    \/ ConnectOpen
    \/ ConnectExec
    \/ Seed
    \/ Tick
    \/ LoginStart
    \/ LoginLookup
    \/ LoginCompare
    \/ LoginRespond
    \/ GuardStart
    \/ GuardVerify

Spec == Init /\ [][Next]_vars

(***************************************************************************)
(* The server after start-up and seeding, while another process changes    *)
(* the rows of the users table of the same database file.                  *)
(***************************************************************************)
InitStore ==
    /\ db = "ready"
    /\ tableReady = TRUE
    /\ users = SeedRows(<<>>, 1, [i \in 1..Len(SeedUsers) |-> "saltA"])
    /\ seedDone = TRUE
    /\ now = 0
    /\ reqs = {}
    /\ issued = {}
    /\ started = 0
    /\ gateClaims = NoClaims
    /\ gateRoles = {}
    /\ gateOut = IdleReq

\* another process writes the users table of the same database file
ChangeStore ==
    /\ seedDone
    /\ \E kind \in ProvisionKinds :
          /\ users' = Provision(users, kind)
          /\ users' # users
    /\ UNCHANGED <<db, tableReady, seedDone, now, reqs, issued, started>>
    /\ UNCHANGED gateVars

NextStore ==
    \/ ChangeStore
    \/ Tick
    \/ LoginStart
    \/ LoginLookup
    \/ LoginCompare
    \/ LoginRespond
    \/ GuardStart
    \/ GuardVerify

SpecStore == InitStore /\ [][NextStore]_vars

(***************************************************************************)
(* The middleware returned by checkRole, applied on its own to any request *)
(* context: claims of every role or none, any roles array, either route.   *)
(***************************************************************************)
Roles == {"user", "advisor", "admin"}

GateClaims ==
    {NoClaims} \cup
    {[id |-> i, username |-> "someone", role |-> ro] :
        i \in 1..2, ro \in Roles \cup {"guest"}}

InitGate ==
    /\ db = "opening"
    /\ tableReady = FALSE
    /\ users = <<>>
    /\ seedDone = FALSE
    /\ now = 0
    /\ reqs = {}
    /\ issued = {}
    /\ started = 0
    /\ gateClaims \in GateClaims
    /\ gateRoles \in SUBSET Roles
    /\ gateOut = IdleReq

GateCheck ==
    /\ gateOut.pc = "idle"
    /\ \E route \in {"admin", "advisor"} :
          gateOut' = CheckRole(gateRoles,
                               [IdleReq EXCEPT !.route = route,
                                               !.reqUser = gateClaims])
    /\ UNCHANGED <<gateClaims, gateRoles>>
    /\ UNCHANGED mainVars

NextGate == GateCheck

SpecGate == InitGate /\ [][NextGate]_vars

(***************************************************************************)
(* Vocabulary of the properties.                                           *)
(***************************************************************************)
IsLogin(q) == q.route = "login"
IsProtected(q) == q.route \in ProtectedRoutes
Answered(q) == q.pc = "done"

\* the lookup of a login returned no record
UnknownUsername(q) ==
    /\ IsLogin(q) /\ Answered(q)
    /\ q.steps = <<"validated", "lookedUp">>
    /\ q.user = NoRow

\* the lookup returned a record
FoundRecord(q) ==
    /\ IsLogin(q)
    /\ Len(q.steps) >= 3
    /\ q.user # NoRow

\* the password given is the one the record's hash was made from
PasswordMatches(q) ==
    /\ q.body.password.type = "string"
    /\ \E i \in 1..Len(SeedUsers) :
          /\ SeedUsers[i].username = q.user.username
          /\ SeedUsers[i].password = q.body.password.val

PasswordMismatch(q) ==
    /\ FoundRecord(q) /\ Answered(q)
    /\ q.body.password.type = "string"
    /\ ~ PasswordMatches(q)

InvalidCredentials == [status |-> 401, body |-> [message |-> <<"Invalid credentials">>]]

(***************************************************************************)
(* C1: a login with non-empty username and password gets the same answer   *)
(* when the username is unknown as when the password is wrong: status 401, *)
(* body {"message":"Invalid credentials"}.                                 *)
(***************************************************************************)
C1_SameInvalidCredentials ==
    /\ \A r \in reqs :
          UnknownUsername(r) \/ PasswordMismatch(r)
             => r.responses = <<InvalidCredentials>>
    /\ \A r1, r2 \in reqs :
          UnknownUsername(r1) /\ PasswordMismatch(r2)
             => r1.responses = r2.responses

C1_Witness ==
    \E r1, r2 \in reqs :
        /\ UnknownUsername(r1) /\ ~ Falsy(r1.body.username)
        /\ PasswordMismatch(r2) /\ ~ Falsy(r2.body.password)
        /\ Len(r1.responses) = 1 /\ Len(r2.responses) = 1

(***************************************************************************)
(* C2: the handler of a protected route runs only after the token was      *)
(* verified and, on a route with required roles, the role is one of them;  *)
(* a request denied by either check is answered with a failure and its     *)
(* handler never runs.                                                     *)
(***************************************************************************)
TokenVerified(q) ==
    /\ q.verifiedAt >= 0
    /\ JwtVerify(JwsParts(q.token), Secret, q.verifiedAt).ok

GateAllows(q) ==
    /\ q.route = "admin" => q.reqUser # NoClaims /\ q.reqUser.role = "admin"
    /\ q.route = "advisor" => q.reqUser # NoClaims /\ q.reqUser.role = "advisor"

C2_HandlerOnlyWhenAllowed ==
    \A q0 \in reqs :
        LET q == q0
        IN  IsProtected(q) =>
              /\ q.handlerCalls > 0 => TokenVerified(q) /\ GateAllows(q)
              /\ Answered(q) /\ ~ (TokenVerified(q) /\ GateAllows(q))
                    => /\ q.handlerCalls = 0
                       /\ Len(q.responses) = 1
                       /\ q.responses[1].status \in {401, 403}

C2_Witness ==
    \E r1, r2 \in reqs :
        /\ r1.route = "admin" /\ r1.handlerCalls = 1
        /\ r2.route = "advisor" /\ Answered(r2)
        /\ TokenVerified(r2) /\ r2.handlerCalls = 0

(***************************************************************************)
(* C3: the middleware of checkRole answers 403 "Access denied:             *)
(* insufficient permissions" exactly when the claims are absent or their   *)
(* role is not in the required set, and lets the request through           *)
(* otherwise; admin claims are denied where the set is {advisor} and let   *)
(* through where it is {admin}.                                            *)
(***************************************************************************)
GateDenied ==
    /\ gateOut.responses =
          <<[status |-> 403,
             body |-> [message |-> <<"Access denied: insufficient permissions">>]]>>
    /\ gateOut.handlerCalls = 0
    /\ gateOut.nexts = <<>>

GatePassed ==
    /\ gateOut.nexts = <<"checkRole">>
    /\ gateOut.handlerCalls = 1
    /\ Len(gateOut.responses) = 1 /\ gateOut.responses[1].status = 200

C3_GateDecision ==
    gateOut.pc = "done" =>
        /\ GateDenied <=> (gateClaims = NoClaims \/ gateClaims.role \notin gateRoles)
        /\ GatePassed <=> ~ GateDenied
        /\ gateClaims # NoClaims /\ gateClaims.role = "admin" =>
              /\ gateRoles = {"advisor"} => GateDenied
              /\ gateRoles = {"admin"} => GatePassed

C3_Witness ==
    /\ gateOut.pc = "done"
    /\ gateClaims # NoClaims /\ gateClaims.role = "admin"
    /\ gateRoles = {"advisor"}
    /\ GateDenied

(***************************************************************************)
(* C4: a login whose lookup found a record and whose password matches it   *)
(* is answered 200 with exactly id, username, role and token; id, username *)
(* and role are those of the stored record, the role inside the token is   *)
(* the stored role, and the body has no password hash.                     *)
(***************************************************************************)
C4_LoginSuccessBody ==
    \A q0 \in reqs :
        LET q == q0
        IN  FoundRecord(q) /\ PasswordMatches(q) /\ Answered(q) =>
              /\ Len(q.responses) = 1
              /\ q.responses[1].status = 200
              /\ DOMAIN q.responses[1].body = {"id", "username", "role", "token"}
              /\ q.user.username = q.body.username.val
              /\ q.responses[1].body.id = q.user.id
              /\ q.responses[1].body.username = q.user.username
              /\ q.responses[1].body.role = q.user.role
              /\ q.responses[1].body.token[2].role = q.user.role

C4_Witness ==
    \E r \in reqs :
        /\ FoundRecord(r) /\ PasswordMatches(r) /\ Answered(r)
        /\ r.responses[1].body.role = "admin"

(***************************************************************************)
(* More vocabulary: the token a protected request carried.                 *)
(***************************************************************************)
\* jwtVerify has settled for the request
VerifyRan(q) == IsProtected(q) /\ Answered(q) /\ q.verifiedAt >= 0

Carried(q) == JwsParts(q.token)

\* the request carried a token of three parts signed with the secret
CorrectlySigned(q) ==
    /\ Len(Carried(q)) = 3
    /\ Carried(q)[1] = [alg |-> "HS256"]
    /\ Carried(q)[3] =
          [alg |-> "HS256", key |-> Secret,
           header |-> Carried(q)[1], payload |-> Carried(q)[2]]

InvalidOrExpired ==
    [status |-> 403, body |-> [message |-> <<"Invalid or expired token">>]]
AccessDenied ==
    [status |-> 403,
     body |-> [message |-> <<"Access denied: insufficient permissions">>]]

(***************************************************************************)
(* C5: a correctly signed token verified at or after its expiration time   *)
(* is answered 403 "Invalid or expired token" and the handler is not run.  *)
(***************************************************************************)
C5_ExpiredTokenRejected ==
    \A q0 \in reqs :
        LET q == q0
        IN  VerifyRan(q) /\ CorrectlySigned(q) /\ Carried(q)[2].exp <= q.verifiedAt
              => /\ q.responses = <<InvalidOrExpired>>
                 /\ q.handlerCalls = 0
                 /\ q.reqUser = NoClaims

C5_Witness ==
    \E r \in reqs :
        /\ VerifyRan(r) /\ CorrectlySigned(r)
        /\ Carried(r) \in IssuedTokens
        /\ Carried(r)[2].exp <= r.verifiedAt
        /\ r.responses = <<InvalidOrExpired>>

(***************************************************************************)
(* C6: the claims attached to a request are those of a token sent out by a *)
(* successful login and carried unchanged; a request whose token was never *)
(* issued (tampered header, payload or signature, or forged) is answered   *)
(* 403 and its handler is not run.                                         *)
(***************************************************************************)
C6_OnlyIssuedTokensAccepted ==
    \A q0 \in reqs :
        LET q == q0
        IN  /\ q.reqUser # NoClaims =>
                  \E i \in issued :
                     /\ Carried(q) = i.token
                     /\ q.reqUser = [id |-> i.token[2].id,
                                     username |-> i.token[2].username,
                                     role |-> i.token[2].role]
            /\ VerifyRan(q) /\ Carried(q) \notin IssuedTokens =>
                  /\ q.responses = <<InvalidOrExpired>>
                  /\ q.handlerCalls = 0

C6_Witness ==
    \E r \in reqs :
        /\ VerifyRan(r)
        /\ \E t \in IssuedTokens, k \in {"role", "exp", "sig", "none-alg"} :
              /\ Carried(r) = Tamper(t, k)
              /\ Tamper(t, k)[2].exp > r.verifiedAt
        /\ r.responses = <<InvalidOrExpired>>

(***************************************************************************)
(* C7: a token sent out by a login for record u and presented as           *)
(* "Bearer <token>" before its expiration verifies, and the claims         *)
(* attached are u's id, username and role; with an admin's token the admin *)
(* route answers 200 and the advisor route answers 403 "Access denied:     *)
(* insufficient permissions".                                              *)
(***************************************************************************)
BearerOf(q, token) ==
    q.header = [present |-> TRUE,
                chars |-> <<[ch |-> "word", word |-> "Bearer"], [ch |-> "sp"],
                            [ch |-> "jws", parts |-> token]>>]

C7_RoundTrip ==
    \A q0 \in reqs : \A i \in issued :
        LET q == q0
        IN  /\ IsProtected(q) /\ Answered(q)
            /\ BearerOf(q, i.token)
            /\ q.verifiedAt < i.token[2].exp
            => /\ q.verifiedAt >= 0
               /\ q.reqUser = [id |-> i.user.id, username |-> i.user.username,
                               role |-> i.user.role]
               /\ q.route = "all" => q.responses[1].status = 200
               /\ i.user.role = "admin" /\ q.route = "admin" =>
                     q.responses =
                        <<[status |-> 200,
                           body |-> [message |-> <<"Admin content here">>]]>>
               /\ i.user.role = "admin" /\ q.route = "advisor" =>
                     q.responses = <<AccessDenied>>

C7_Witness ==
    \E r1, r2 \in reqs : \E i \in issued :
        /\ i.user.role = "admin"
        /\ Answered(r1) /\ BearerOf(r1, i.token)
        /\ Answered(r2) /\ BearerOf(r2, i.token)
        /\ r1.route = "admin" /\ r1.responses[1].status = 200
        /\ r2.route = "advisor" /\ r2.responses = <<AccessDenied>>

(***************************************************************************)
(* More vocabulary: the shape of the Authorization header.                 *)
(***************************************************************************)
HeaderChars(q) == q.header.chars

\* the header starts with the word Bearer, alone or followed by a space
HasBearerScheme(q) ==
    /\ q.header.present
    /\ Len(HeaderChars(q)) >= 1
    /\ HeaderChars(q)[1] = [ch |-> "word", word |-> "Bearer"]
    /\ Len(HeaderChars(q)) >= 2 => HeaderChars(q)[2] = [ch |-> "sp"]

SpacesOf(chars) == {i \in 1..Len(chars) : chars[i] = [ch |-> "sp"]}

\* what stands between the first space of the header and the next one
AfterFirstSpace(chars) ==
    IF SpacesOf(chars) = {} THEN <<>>
    ELSE LET first == CHOOSE i \in SpacesOf(chars) :
                         \A j \in SpacesOf(chars) : i <= j
             later == {j \in SpacesOf(chars) : j > first}
             last == IF later = {} THEN Len(chars)
                     ELSE (CHOOSE i \in later : \A j \in later : i <= j) - 1
         IN  SubSeq(chars, first + 1, last)

NoTokenProvided ==
    [status |-> 401, body |-> [message |-> <<"No token provided">>]]
MalformedToken ==
    [status |-> 401, body |-> [message |-> <<"Malformed token">>]]

(***************************************************************************)
(* C8: a request whose Authorization header lacks the Bearer scheme        *)
(* (another scheme word, or none) is rejected and its handler is not run.  *)
(***************************************************************************)
C8_BearerSchemeRequired ==
    \A q0 \in reqs :
        LET q == q0
        IN  IsProtected(q) /\ q.header.present /\ ~ HasBearerScheme(q)
              => /\ q.handlerCalls = 0
                 /\ Answered(q) => q.responses[1].status \in {401, 403}

(***************************************************************************)
(* C9: a protected request gets exactly one answer, decided by the first   *)
(* failing check: header absent -> 401 "No token provided"; header present *)
(* without a token segment after the first space -> 401 "Malformed token"; *)
(* token that fails verification -> 403 "Invalid or expired token"; role   *)
(* check failing -> 403 "Access denied: insufficient permissions";         *)
(* otherwise the handler's 200.                                            *)
(***************************************************************************)
GuardAnswer(q, noToken) ==
    IF noToken
    THEN q.responses = <<NoTokenProvided>>
    ELSE IF AfterFirstSpace(HeaderChars(q)) = <<>>
    THEN q.responses = <<MalformedToken>>
    ELSE IF ~ TokenVerified(q)
    THEN q.responses = <<InvalidOrExpired>>
    ELSE IF ~ GateAllows(q)
    THEN q.responses = <<AccessDenied>>
    ELSE /\ Len(q.responses) = 1
         /\ q.responses[1].status = 200
         /\ q.handlerCalls = 1

\* as claimed: "No token provided" is for the header that is absent
C9_FirstFailingCheck ==
    \A r \in reqs :
        IsProtected(r) /\ Answered(r)
           => GuardAnswer(r, ~ r.header.present)

\* as amended: "No token provided" is for the header that is absent or empty
C9_FirstFailingCheckAmended ==
    \A r \in reqs :
        IsProtected(r) /\ Answered(r)
           => GuardAnswer(r, ~ r.header.present
                                   \/ HeaderChars(r) = <<>>)

C9_Witness ==
    \E r1, r2 \in reqs :
        /\ Answered(r1) /\ IsProtected(r1)
        /\ r1.header.present /\ HeaderChars(r1) = <<>>
        /\ r1.responses = <<NoTokenProvided>>
        /\ Answered(r2) /\ IsProtected(r2)
        /\ HeaderChars(r2) # <<>>
        /\ r2.responses = <<MalformedToken>>

(***************************************************************************)
(* C10: two protected requests that both carried a token and both failed   *)
(* verification get identical answers, whatever made each token invalid    *)
(* (not a JWS, bad signature, expired).                                    *)
(***************************************************************************)
C10_SameAnswerForEveryFailure ==
    \A r1, r2 \in reqs :
        /\ VerifyRan(r1) /\ ~ TokenVerified(r1)
        /\ VerifyRan(r2) /\ ~ TokenVerified(r2)
        => r1.responses = r2.responses

C10_Witness ==
    \E r1, r2 \in reqs :
        /\ VerifyRan(r1) /\ r1.logged = <<"JWTExpired">>
        /\ VerifyRan(r2)
        /\ r2.logged \in {<<"JWSSignatureVerificationFailed">>,
                                <<"JWSInvalid">>}
        /\ r1.responses = r2.responses

(***************************************************************************)
(* More vocabulary: the failures of a login.                               *)
(***************************************************************************)
EmptyOrAbsent(v) ==
    \/ v = [type |-> "undefined", val |-> ""]
    \/ v = [type |-> "string", val |-> ""]

MissingFields ==
    [status |-> 400, body |-> [message |-> <<"Username and password required">>]]
ServerError ==
    [status |-> 500, body |-> [message |-> <<"Server error">>]]

(***************************************************************************)
(* C11: a login whose body has an empty or absent username or password is  *)
(* answered 400 "Username and password required" at once: the store is not *)
(* queried, the password is not compared and no token is made for it.      *)
(***************************************************************************)
C11_MissingFieldsRejected ==
    \A q0 \in reqs :
        LET q == q0
        IN  /\ IsLogin(q) /\ q.body.present
            /\ EmptyOrAbsent(q.body.username) \/ EmptyOrAbsent(q.body.password)
            => /\ q.pc = "done"
               /\ q.responses = <<MissingFields>>
               /\ q.steps = <<>>
               /\ q.user = NoRow
               /\ q.token = <<>>
               /\ q.logged = <<>>

C11_Witness ==
    \E r1, r2 \in reqs :
        /\ IsLogin(r1) /\ r1.body.present
        /\ r1.body.username = [type |-> "string", val |-> ""]
        /\ r1.responses = <<MissingFields>>
        /\ IsLogin(r2) /\ r2.body.present
        /\ r2.body.password = [type |-> "undefined", val |-> ""]
        /\ r2.responses = <<MissingFields>>

(***************************************************************************)
(* C12: every unexpected failure of a login (no request body, store not    *)
(* initialised or failing, password comparison throwing) is answered 500   *)
(* "Server error"; none leaves the handler without an answer.              *)
(***************************************************************************)
UnexpectedFailure(q) ==
    /\ IsLogin(q)
    /\ q.pc \in {"done", "rejected"}
    /\ ~ q.body.present \/ q.logged # <<>>

C12_EveryFailureAnswered ==
    \A q0 \in reqs :
        LET q == q0
        IN  /\ IsLogin(q) => q.pc # "rejected"
            /\ UnexpectedFailure(q) => q.responses = <<ServerError>>

(***************************************************************************)
(* C13: the payload a login signs is id, username and role next to the     *)
(* expiration, and the claims attached to a request are id, username and   *)
(* role only, though the record holds the password hash and the payload    *)
(* presented holds the expiration.                                         *)
(***************************************************************************)
ClaimFields == {"id", "username", "role"}

C13_ClaimsOnlyIdentity ==
    /\ \A i \in issued : DOMAIN i.token[2] \ {"exp"} = ClaimFields
    /\ \A q \in reqs :
          /\ IsLogin(q) /\ q.token # <<>>
                => DOMAIN q.token[2] \ {"exp"} = ClaimFields
          /\ q.reqUser # NoClaims => DOMAIN q.reqUser = ClaimFields

C13_Witness ==
    \E r \in reqs : \E i \in issued :
        /\ "passwordHashed" \in DOMAIN i.user
        /\ IsProtected(r) /\ Carried(r) = i.token
        /\ "exp" \in DOMAIN Carried(r)[2]
        /\ r.reqUser # NoClaims

(***************************************************************************)
(* C14: a correctly signed token verified before its expiration is         *)
(* accepted with the claims it was issued with, and the role check uses    *)
(* the role inside the token, whatever has become of the record in the     *)
(* store since (role changed, record removed) and whatever logins came     *)
(* after.                                                                  *)
(***************************************************************************)
EmbeddedClaims(q) ==
    [id |-> Carried(q)[2].id, username |-> Carried(q)[2].username,
     role |-> Carried(q)[2].role]

C14_StatelessValidity ==
    \A q0 \in reqs :
        LET q == q0
        IN  /\ VerifyRan(q) /\ CorrectlySigned(q)
            /\ Carried(q)[2].exp > q.verifiedAt
            => /\ q.reqUser = EmbeddedClaims(q)
               /\ q.route = "all" =>
                     q.responses =
                        <<[status |-> 200,
                           body |-> [message |->
                              <<"Hello ", Carried(q)[2].username,
                                ", your role is ", Carried(q)[2].role>>]]>>
               /\ q.route \in {"admin", "advisor"} =>
                     IF Carried(q)[2].role = q.route
                     THEN q.responses[1].status = 200 /\ q.handlerCalls = 1
                     ELSE q.responses = <<AccessDenied>>

\* the record the table held for a username when the token settled
RecordAtVerify(q, username) ==
    {q.storeAtVerify[k] : k \in {j \in 1..Len(q.storeAtVerify) :
                                      q.storeAtVerify[j].username = username}}

C14_Witness ==
    \E r1, r2 \in reqs :
        /\ VerifyRan(r1) /\ CorrectlySigned(r1) /\ r1.route = "admin"
        /\ Carried(r1)[2].role = "admin" /\ r1.handlerCalls = 1
        /\ RecordAtVerify(r1, Carried(r1)[2].username) = {}
        /\ VerifyRan(r2) /\ CorrectlySigned(r2) /\ r2.route = "admin"
        /\ Carried(r2)[2].role = "admin" /\ r2.handlerCalls = 1
        /\ \E row \in RecordAtVerify(r2, Carried(r2)[2].username) :
              row.role = "user"

(***************************************************************************)
(* C15: no step of a login changes the users table: every step in which a  *)
(* login request arrives or goes on leaves the records as they were.       *)
(***************************************************************************)
LoginStepTaken == \E q \in reqs' : IsLogin(q) /\ q \notin reqs

C15_LoginLeavesStore == [][LoginStepTaken => users' = users]_vars

C15_Witness ==
    \E r1, r2 \in reqs :
        /\ Len(users) = Len(SeedUsers)
        /\ IsLogin(r1) /\ Answered(r1) /\ r1.responses[1].status = 200
        /\ IsLogin(r2) /\ Answered(r2) /\ r2.responses[1].status = 401
        /\ r2.user = NoRow /\ r2.steps = <<"validated", "lookedUp">>

(***************************************************************************)
(* C16: the steps of a login run in the order validate, lookup, password   *)
(* check, token issue, respond: the comparison is started only on a record *)
(* the lookup returned, the token is made only for a matching password,    *)
(* the 200 is sent only with the token made, and a login that failed has   *)
(* run no step past the failing one.                                       *)
(***************************************************************************)
LoginOrder == <<"validated", "lookedUp", "compared", "issued">>

IsPrefix(s, t) == Len(s) <= Len(t) /\ s = SubSeq(t, 1, Len(s))

C16_LoginStepsInOrder ==
    \A q0 \in reqs :
        LET q == q0
        IN  IsLogin(q) =>
              /\ IsPrefix(q.steps, LoginOrder)
              /\ q.pc = "compare" \/ Len(q.steps) >= 3
                    => q.user # NoRow /\ Len(q.steps) >= 2
              /\ q.pc = "sign" \/ Len(q.steps) = 4 \/ q.token # <<>>
                    => Len(q.steps) >= 3 /\ PasswordMatches(q)
              /\ (\E k \in 1..Len(q.responses) : q.responses[k].status = 200)
                    => /\ q.steps = LoginOrder
                       /\ q.responses[1].body.token = q.token
              /\ Answered(q) /\ q.responses[1].status # 200
                    => /\ Len(q.responses) = 1
                       /\ q.token = <<>>
                       /\ q.responses[1].status = 400 => q.steps = <<>>
                       /\ q.responses[1].status = 401 => Len(q.steps) \in {2, 3}
                       /\ q.responses[1].status = 500 => Len(q.steps) \in {1, 2}

C16_Witness ==
    \E r1, r2 \in reqs :
        /\ IsLogin(r1) /\ Answered(r1)
        /\ r1.steps = LoginOrder /\ r1.responses[1].status = 200
        /\ IsLogin(r2) /\ Answered(r2)
        /\ Len(r2.steps) = 3 /\ r2.responses[1].status = 401

(***************************************************************************)
(* C17: a login that reaches getDB before connectDB has completed (handle  *)
(* opened and users table created) gets the explicit error, answered 500,  *)
(* and never a handle to query with.                                       *)
(***************************************************************************)
C17_GetDBThrowsUntilReady ==
    \A q0 \in reqs :
        LET q == q0
        IN  IsLogin(q) /\ Len(q.steps) >= 1 /\ db # "ready"
              => /\ q.pc = "done"
                 /\ q.steps = <<"validated">>
                 /\ q.logged = <<"Error">>
                 /\ q.responses = <<ServerError>>

(***************************************************************************)
(* C18: what a request is answered and the claims attached to it are       *)
(* determined by its own header or body (with the secret, the clock and    *)
(* the store): claims come from the request's own token or are absent, two *)
(* protected requests with the same route, header and verification time    *)
(* fare alike, and a login is answered for the username it sent.           *)
(***************************************************************************)
C18_RequestsIndependent ==
    /\ \A q0 \in reqs :
          LET q == q0
          IN  /\ IsProtected(q) =>
                    q.reqUser = IF TokenVerified(q) THEN EmbeddedClaims(q)
                                ELSE NoClaims
              /\ IsProtected(q) /\ Answered(q) /\ q.route = "all"
                    /\ TokenVerified(q)
                    => q.responses[1].body.message[2] = Carried(q)[2].username
              /\ IsLogin(q) /\ Answered(q) /\ q.responses[1].status = 200
                    => /\ q.responses[1].body.username = q.body.username.val
                       /\ q.responses[1].body.token[2].username
                             = q.body.username.val
    /\ \A r1, r2 \in reqs :
          /\ IsProtected(r1) /\ Answered(r1)
          /\ IsProtected(r2) /\ Answered(r2)
          /\ r1.route = r2.route /\ r1.header = r2.header
          /\ r1.verifiedAt = r2.verifiedAt
          => r1.responses = r2.responses /\ r1.reqUser = r2.reqUser

C18_Witness ==
    \E r1, r2 \in reqs :
        /\ IsProtected(r1) /\ Answered(r1) /\ TokenVerified(r1)
        /\ r1.reqUser # NoClaims /\ r1.handlerCalls = 1
        /\ IsProtected(r2) /\ Answered(r2) /\ r2.verifiedAt >= 0
        /\ ~ TokenVerified(r2)
        /\ r2.reqUser = NoClaims /\ r2.responses = <<InvalidOrExpired>>

(***************************************************************************)
(* C19: every invocation has exactly one outcome: verifyToken either sends *)
(* one of its failure answers or calls next() once; checkRole, when it is  *)
(* reached, either sends its 403 or calls next() once; the handler reached *)
(* sends the one 200; a login past validation sends exactly one response   *)
(* once it is over and none before.                                        *)
(***************************************************************************)
Count(seq, S) == Cardinality({k \in 1..Len(seq) : seq[k] \in S})

VerifyTokenFailures == {NoTokenProvided, MalformedToken, InvalidOrExpired}

C19_ExactlyOneOutcome ==
    \A q0 \in reqs :
        LET q == q0
            reached == Count(q.nexts, {"verifyToken"}) = 1
                          /\ q.route \in {"admin", "advisor"}
        IN  /\ IsProtected(q) /\ Answered(q) =>
                  /\ Count(q.responses, VerifyTokenFailures)
                        + Count(q.nexts, {"verifyToken"}) = 1
                  /\ Count(q.responses, {AccessDenied})
                        + Count(q.nexts, {"checkRole"})
                        = IF reached THEN 1 ELSE 0
                  /\ Len(q.responses) = 1
                  /\ q.handlerCalls =
                        IF q.responses[1].status = 200 THEN 1 ELSE 0
            /\ IsProtected(q) /\ ~ Answered(q) =>
                  q.responses = <<>> /\ q.nexts = <<>>
            /\ IsLogin(q) /\ Len(q.steps) >= 1 =>
                  Len(q.responses) = IF Over(q) THEN 1 ELSE 0

C19_Witness ==
    \E r1, r2 \in reqs :
        /\ IsProtected(r1) /\ Answered(r1)
        /\ r1.nexts = <<"verifyToken">> /\ r1.responses = <<AccessDenied>>
        /\ IsLogin(r2) /\ Answered(r2) /\ Len(r2.steps) >= 1
        /\ r2.responses = <<ServerError>>

====
